---------------------------- MODULE Spec2Model ----------------------------
(***************************************************************************)
(* A model of lib/js/sha1.js: the streaming SHA-1 context (init, update,   *)
(* final, transform), the module-level scratch buffers DESC and PADDING,   *)
(* the shared context ctx and the one-shot helpers digest() and root().    *)
(*                                                                         *)
(* JavaScript numbers are modelled exactly: a number n is the pair <<h,l>> *)
(* with n = h * 2^16 + l and 0 <= l < 2^16 (h is signed and unbounded      *)
(* here, so the values the code leaves un-reduced keep their width); NaN    *)
(* and undefined are two further values.  The 32-bit operators of the      *)
(* language (ToInt32, ToUint32, <<, >>, >>>, &, |, ^, ~) are modelled on   *)
(* that representation, bit for bit.  Bytes of a Buffer are 0..255.        *)
(***************************************************************************)
EXTENDS Integers, Sequences, FiniteSets, TLC

-----------------------------------------------------------------------------
(* JavaScript values *)

NaN == <<0, -1>>
Undefined == <<0, -2>>
IsNum(v) == v[2] >= 0

\* The number n (an integer of the model) as a JavaScript number.
FromInt(n) == <<n \div 65536, n % 65536>>

\* ToUint32: NaN and undefined become 0; a number is reduced modulo 2^32.
ToUint32(v) == IF IsNum(v) THEN <<v[1] % 65536, v[2]>> ELSE <<0, 0>>

\* ToInt32: as ToUint32, read as a two's complement value.
ToInt32(v) ==
  LET u == ToUint32(v)
  IN  IF u[1] >= 32768 THEN <<u[1] - 65536, u[2]>> ELSE u

\* x + y on numbers (exact: every sum of the model is far below 2^53).
Add(p, q) ==
  IF IsNum(p) /\ IsNum(q)
    THEN LET l == p[2] + q[2]
         IN  <<p[1] + q[1] + (l \div 65536), l % 65536>>
    ELSE NaN

\* Bit k of the byte x.
Bit(x, k) == (x \div (2 ^ k)) % 2

\* One bit of x op y.
BitOp(op, a, b) ==
  CASE op = "xor" -> (a + b) % 2
    [] op = "and" -> a * b
    [] op = "or"  -> IF a + b > 0 THEN 1 ELSE 0

\* x op y on bytes, bit by bit.
ByteOp(op, x, y) ==
  BitOp(op, Bit(x, 0), Bit(y, 0)) + 2 * BitOp(op, Bit(x, 1), Bit(y, 1))
  + 4 * BitOp(op, Bit(x, 2), Bit(y, 2)) + 8 * BitOp(op, Bit(x, 3), Bit(y, 3))
  + 16 * BitOp(op, Bit(x, 4), Bit(y, 4)) + 32 * BitOp(op, Bit(x, 5), Bit(y, 5))
  + 64 * BitOp(op, Bit(x, 6), Bit(y, 6)) + 128 * BitOp(op, Bit(x, 7), Bit(y, 7))

\* The operators on bytes, tabulated once: entry x * 256 + y + 1 is x op y
\* (SubSeq makes the table a sequence, indexed directly).
Table(op) ==
  SubSeq([i \in 1..65536 |-> ByteOp(op, (i - 1) \div 256, (i - 1) % 256)], 1, 65536)

XorT == Table("xor")
AndT == Table("and")
OrT  == Table("or")

Op16(T, a, b) ==
  T[(a \div 256) * 256 + (b \div 256) + 1] * 256 + T[(a % 256) * 256 + (b % 256) + 1]

\* x ^ y, x & y, x | y: on the ToInt32 of the operands, an int32 result.
Op32(T, x, y) ==
  LET a == ToUint32(x)
      b == ToUint32(y)
  IN  ToInt32(<<Op16(T, a[1], b[1]), Op16(T, a[2], b[2])>>)

Xor(x, y) == Op32(XorT, x, y)
And(x, y) == Op32(AndT, x, y)
Or(x, y)  == Op32(OrT, x, y)

\* ~x
Not(x) ==
  LET a == ToUint32(x)
  IN  ToInt32(<<65535 - a[1], 65535 - a[2]>>)

\* x << b, 0 <= b < 32: an int32 result.
Shl(x, b) ==
  LET a == ToUint32(x)
  IN  IF b < 16
        THEN LET l == a[2] * (2 ^ b)
             IN  ToInt32(<<((a[1] * (2 ^ b)) % 65536) + (l \div 65536), l % 65536>>)
        ELSE ToInt32(<<(a[2] * (2 ^ (b - 16))) % 65536, 0>>)

\* x >>> b, 0 <= b < 32: a uint32 result.
Ushr(x, b) ==
  LET a == ToUint32(x)
  IN  IF b < 16
        THEN <<a[1] \div (2 ^ b),
               (a[2] \div (2 ^ b)) + (a[1] % (2 ^ b)) * (2 ^ (16 - b))>>
        ELSE <<0, a[1] \div (2 ^ (b - 16))>>

\* x >> b, 0 <= b < 32: the sign is kept, an int32 result.
Sar(x, b) ==
  LET a == ToInt32(x)
  IN  IF b < 16
        THEN <<a[1] \div (2 ^ b),
               (a[2] \div (2 ^ b)) + (a[1] % (2 ^ b)) * (2 ^ (16 - b))>>
        ELSE FromInt(a[1] \div (2 ^ (b - 16)))

\* A store into a Buffer keeps the low eight bits.
ToByte(v) == ToUint32(v)[2] % 256

-----------------------------------------------------------------------------
(* sha1.js: helpers *)

rotl32(w, b) == Or(Shl(w, b), Ushr(w, 32 - b))

ch32(x, y, z) == Xor(And(x, y), And(Not(x), z))

maj32(x, y, z) == Xor(Xor(And(x, y), And(x, z)), And(y, z))

p32(x, y, z) == Xor(Xor(x, y), z)

ft_1(s, x, y, z) ==
  IF s = 0 THEN ch32(x, y, z)
  ELSE IF s = 1 \/ s = 3 THEN p32(x, y, z)
  ELSE IF s = 2 THEN maj32(x, y, z)
  ELSE <<0, 0>>

\* K[s], s in 0..3 (0x5a827999, 0x6ed9eba1, 0x8f1bbcdc, 0xca62c1d6).
K == << <<23170, 31129>>, <<28377, 60321>>, <<36635, 48348>>, <<51810, 49622>> >>

\* buf[k] as a number; buf is a sequence of bytes and k counts from 0 as in
\* the code.
At(buf, k) == FromInt(buf[k + 1])

\* n * 0x1000000, for a number n in 0..255.
Mul24(n) == <<n[2] * 256, 0>>

\* buf is a sequence of bytes; offset counts from 0 as in the code.
readU32(buf, offset) ==
  Or(Or(Add(Mul24(And(At(buf, offset), <<0, 255>>)),
            Shl(And(At(buf, offset + 1), <<0, 255>>), 16)),
        Shl(And(At(buf, offset + 2), <<0, 255>>), 8)),
     And(At(buf, offset + 3), <<0, 255>>))

\* The four bytes writeU32 stores at buf[offset .. offset+3].
writeU32(value) ==
  << ToByte(Ushr(value, 24)),
     ToByte(And(Sar(value, 16), <<0, 255>>)),
     ToByte(And(Sar(value, 8), <<0, 255>>)),
     ToByte(And(value, <<0, 255>>)) >>

\* for (; i < length; i++) w[i] = rotl32(w[i-3] ^ w[i-8] ^ w[i-14] ^ w[i-16], 1),
\* on the sequence w of the slots filled so far (slot i of the code is w[i+1]).
RECURSIVE Expand(_, _)
Expand(w, length) ==
  IF Len(w) >= length THEN w
  ELSE Expand(Append(w, rotl32(Xor(Xor(Xor(w[Len(w) - 2], w[Len(w) - 7]),
                                       w[Len(w) - 13]), w[Len(w) - 15]), 1)),
              length)

\* One round of the loop of transform on the quintuple v = <<a, b, c, d, e>>:
\* t = rotl32(a, 5) + ft_1(s, b, c, d) + e + w[i] + K[s], with s = i / 20 | 0.
Round(i, v, w) ==
  << Add(Add(Add(Add(rotl32(v[1], 5), ft_1(i \div 20, v[2], v[3], v[4])),
                 v[5]), w[i + 1]), K[(i \div 20) + 1]),
     v[1], rotl32(v[2], 30), v[3], v[4] >>

\* for (; i < end; i++) of the rounds.  Len(v) evaluates the quintuple of a
\* round before the next round starts.
RECURSIVE Rounds(_, _, _, _)
Rounds(i, end, v, w) ==
  IF i >= end \/ Len(v) # 5 THEN v ELSE Rounds(i + 1, end, Round(i, v, w), w)

\* The 80 slots of this.w for the block at chunk[pos ..]; the loop over
\* i < w.length is run in four legs of 16 slots.
Schedule(chunk, pos) ==
  Expand(Expand(Expand(Expand(
    << readU32(chunk, pos), readU32(chunk, pos + 4), readU32(chunk, pos + 8),
       readU32(chunk, pos + 12), readU32(chunk, pos + 16), readU32(chunk, pos + 20),
       readU32(chunk, pos + 24), readU32(chunk, pos + 28), readU32(chunk, pos + 32),
       readU32(chunk, pos + 36), readU32(chunk, pos + 40), readU32(chunk, pos + 44),
       readU32(chunk, pos + 48), readU32(chunk, pos + 52), readU32(chunk, pos + 56),
       readU32(chunk, pos + 60) >>, 32), 48), 64), 80)

\* AddBack without the >>>= 0 of the five state words.
AddBackWide(s, v) ==
  <<Add(s[1], v[1]), Add(s[2], v[2]), Add(s[3], v[3]), Add(s[4], v[4]), Add(s[5], v[5])>>

\* this.s[i] += v[i]; this.s[i] >>>= 0, for the five state words.
AddBack(s, v) ==
  << Ushr(Add(s[1], v[1]), 0), Ushr(Add(s[2], v[2]), 0), Ushr(Add(s[3], v[3]), 0),
     Ushr(Add(s[4], v[4]), 0), Ushr(Add(s[5], v[5]), 0) >>

\* The 80 rounds on the quintuple v with the schedule w, from round i on, run
\* in legs of 20 rounds; a leg's quintuple is evaluated before the next starts.
RECURSIVE AllRounds(_, _, _)
AllRounds(i, v, w) ==
  IF i >= 80 \/ Len(v) # 5 THEN v ELSE AllRounds(i + 20, Rounds(i, i + 20, v, w), w)

\* The state words s after the rounds on the schedule w.
Compress(s, w) == IF Len(w) = 80 THEN AddBack(s, AllRounds(0, s, w)) ELSE s

\* transform(chunk, pos) on the state words s: the new state words.
transform(s, chunk, pos) == Compress(s, Schedule(chunk, pos))

IV == << <<26437, 8961>>, <<61389, 43913>>, <<39098, 56574>>, <<4146, 21622>>,
         <<50130, 57840>> >>


-----------------------------------------------------------------------------
(* sha1.js: the context *)

\* A byte of a Buffer.allocUnsafe() that no store has reached yet.
Uninit == -1

\* PADDING: 0x80 followed by 63 zero bytes (never written after the module loads).
PADDING == <<128>> \o [i \in 1..63 |-> 0]

\* new SHA1(): a context is the state words s, the byte counter bytes and the
\* 64-byte buffer block.  (this.w is scratch, rewritten by every transform.)
\* The field log is not in the code: it records every transform call made on
\* the context since the last init(), as <<state words before, the 64 bytes
\* compressed, state words after>>.
New ==
  [s |-> <<Undefined, Undefined, Undefined, Undefined, Undefined>>, bytes |-> 0,
   block |-> [i \in 1..64 |-> Uninit], log |-> <<>>]

\* init() without this.bytes = 0.
initKeepCount(c) == [c EXCEPT !.s = IV, !.log = <<>>]

\* init()
init(c) == [c EXCEPT !.s = IV, !.bytes = 0, !.log = <<>>]

\* The context c with the state words o, the result of a transform of blk.
Logged(c, blk, o) == [c EXCEPT !.s = o, !.log = Append(@, <<c.s, blk, o>>)]

\* this.transform(chunk, pos) on the context c.
Transform(c, chunk, pos) ==
  Logged(c, SubSeq(chunk, pos + 1, pos + 64), transform(c.s, chunk, pos))

\* this.bytes & 0x3f
Size(c) == And(FromInt(c.bytes), <<0, 63>>)[2]

\* let want = 64 - size; if (want > len) want = len
Want(size, len) == IF 64 - size > len THEN len ELSE 64 - size

\* Blocks with while (len > 64).
RECURSIVE BlocksLate(_, _, _, _)
BlocksLate(c, data, pos, len) ==
  IF len > 64
    THEN BlocksLate(Transform(c, data, pos), data, pos + 64, len - 64)
    ELSE [c EXCEPT !.block = SubSeq(data, pos + 1, pos + len) \o SubSeq(@, len + 1, 64)]

\* The tail of _update: while (len >= 64) transform(data, pos), then the copy
\* of the len < 64 bytes that remain to the start of block.
RECURSIVE Blocks(_, _, _, _)
Blocks(c, data, pos, len) ==
  IF len >= 64
    THEN Blocks(Transform(c, data, pos), data, pos + 64, len - 64)
    ELSE [c EXCEPT !.block = SubSeq(data, pos + 1, pos + len) \o SubSeq(@, len + 1, 64)]

\* Fill without pos += want: the bytes after a filled block are read from the
\* start of data.
FillFromStart(c, data, len, size, want) ==
  LET filled == [c EXCEPT !.block = SubSeq(@, 1, size) \o SubSeq(data, 1, want)
                                     \o SubSeq(@, size + want + 1, 64)]
  IN  IF size + want < 64 THEN filled
      ELSE Blocks(Transform(filled, filled.block, 0), data, 0, len - want)

\* The head of _update when size > 0: want bytes of data are appended to
\* block, which is compressed if that fills it.
Fill(c, data, len, size, want) ==
  LET filled == [c EXCEPT !.block = SubSeq(@, 1, size) \o SubSeq(data, 1, want)
                                     \o SubSeq(@, size + want + 1, 64)]
  IN  IF size + want < 64 THEN filled
      ELSE Blocks(Transform(filled, filled.block, 0), data, want, len - want)

_update(c, data, len) ==
  IF Size(c) > 0
    THEN Fill([c EXCEPT !.bytes = @ + len], data, len, Size(c), Want(Size(c), len))
    ELSE Blocks([c EXCEPT !.bytes = @ + len], data, 0, len)

\* const len = this.bytes * 8, on the number n of bytes.
BitLen(n) == <<n[1] * 8 + ((n[2] * 8) \div 65536), (n[2] * 8) % 65536>>

\* len * (1 / 0x100000000): the product is exact; its fraction is dropped by the
\* ToUint32 and ToInt32 of writeU32, and is dropped here already.
MulInv32(len) == FromInt(len[1] \div 65536)

\* DescOf with the low word written first.
DescLowFirst(n) == writeU32(BitLen(n)) \o writeU32(MulInv32(BitLen(n)))

\* DESC after the two writeU32 calls of _final, for a byte counter n.
DescOf(n) == writeU32(MulInv32(BitLen(n))) \o writeU32(BitLen(n))

\* PadLen with 120 for 119.
PadLenLong(n) == 1 + ((120 - (n % 64)) % 64)

\* 1 + ((119 - (this.bytes % 64)) % 64)
PadLen(n) == 1 + ((119 - (n % 64)) % 64)

\* The end of _final on the padded context: the state words are written to
\* out and zeroed.  desc is DESC as _final leaves it.
Finish(padded, desc) ==
  [c |-> [padded EXCEPT !.s = <<<<0, 0>>, <<0, 0>>, <<0, 0>>, <<0, 0>>, <<0, 0>>>>],
   desc |-> desc,
   out |-> writeU32(padded.s[1]) \o writeU32(padded.s[2]) \o writeU32(padded.s[3])
           \o writeU32(padded.s[4]) \o writeU32(padded.s[5])]

\* _final(out): the context afterwards, DESC afterwards and the 20 bytes of out.
_final(c) ==
  Finish(_update(_update(c, PADDING, PadLen(c.bytes)), DescOf(FromInt(c.bytes)), 8),
         DescOf(FromInt(c.bytes)))

-----------------------------------------------------------------------------
(* sha1.js: the public methods *)

\* A value a caller passes as data: a Buffer of the bytes, or a value that is
\* no Buffer (a string, an array) holding them.
Buf(bytes) == [isBuffer |-> TRUE, bytes |-> bytes]
NonBuf(bytes) == [isBuffer |-> FALSE, bytes |-> bytes]

\* update(data) on the context c: the assertion, then _update(data, data.length).
\* ok is FALSE when the assertion throws.
update(c, data) ==
  IF data.isBuffer
    THEN [ok |-> TRUE, c |-> _update(c, data.bytes, Len(data.bytes))]
    ELSE [ok |-> FALSE, c |-> c]

\* final() on the context c.
final(c) == _final(c)

\* What a call returns and leaves behind: ok is FALSE when it threw, c is the
\* context afterwards, desc is DESC afterwards, out the bytes returned.
Threw(c, desc) == [ok |-> FALSE, c |-> c, desc |-> desc, out |-> <<>>]
Gave(r) == [ok |-> TRUE, c |-> r.c, desc |-> r.desc, out |-> r.out]

\* .final() of the chain ctx.init().update(..).final(), reached only when the
\* update u before it did not throw.
ThenFinal(u, desc) == IF u.ok THEN Gave(final(u.c)) ELSE Threw(u.c, desc)

\* .update(data) of the chain, reached only when the update u before it did
\* not throw.
ThenUpdate(u, data) == IF u.ok THEN update(u.c, data) ELSE u

\* SHA1.digest(data), run on the module's context c with DESC = desc.
digest(c, desc, data) == ThenFinal(update(init(c), data), desc)

\* root without its two assertions.
rootUnchecked(c, desc, left, right) ==
  ThenFinal(ThenUpdate(update(init(c), left), right), desc)

\* SHA1.root(left, right), run on the module's context c with DESC = desc.
root(c, desc, left, right) ==
  IF ~(left.isBuffer /\ Len(left.bytes) = 20) THEN Threw(c, desc)
  ELSE IF ~(right.isBuffer /\ Len(right.bytes) = 20) THEN Threw(c, desc)
  ELSE ThenFinal(ThenUpdate(update(init(c), left), right), desc)

-----------------------------------------------------------------------------
(* The program's state, and what is recorded about its callers *)

\* The largest number of bytes a behaviour feeds to the context hash.
MaxLife == 128

\* The bytes the callers feed; a chunk is a run of bytes of Msg.
Msg == [i \in 1..MaxLife |-> (i * 73 + 41) % 256]

\* The n bytes of Msg after the first k.
Chunk(k, n) == SubSeq(Msg, k + 1, k + n)

VARIABLES
  hash,     \* a context made by SHA1.hash()
  ctx,      \* the module's context, the one digest() and root() run on
  DESC,     \* the module's 8-byte scratch buffer
  phase,    \* where hash is in its life cycle
  reused,   \* TRUE when the last init() on hash was called after a final()
  fed,      \* the bytes fed to hash since its last init() (or construction)
  life,     \* the number of bytes fed to hash since construction
  digest_,  \* the bytes the last final() on hash returned since init(), or <<>>
  call,     \* the last call of digest() or root(): its arguments and outcome
  pc,       \* per logical thread: "idle", "running" (inside a call) or "done"
  job,      \* per logical thread: the call it makes
  rest,     \* per logical thread: the arguments of its call not yet fed
  ret       \* per logical thread: the bytes its call returned

vars == <<hash, ctx, DESC, phase, reused, fed, life, digest_, call, pc, job, rest, ret>>

\* The logical threads of execution that make one-shot calls.
Threads == {1, 2}

\* DESC = Buffer.allocUnsafe(8)
NewDesc == [i \in 1..8 |-> Uninit]

NoCall == [op |-> "none", args |-> <<>>, ok |-> TRUE, out |-> <<>>]

\* The module is loaded (ctx = new SHA1(), DESC = Buffer.allocUnsafe(8)) and a
\* caller holds hash = SHA1.hash(); nothing has been called yet.
Init ==
  /\ hash = New
  /\ ctx = New
  /\ DESC = NewDesc
  /\ phase = "Uninitialized"
  /\ reused = FALSE
  /\ fed = <<>>
  /\ life = 0
  /\ digest_ = <<>>
  /\ call = NoCall
  /\ pc = [t \in Threads |-> "idle"]
  /\ job = [t \in Threads |-> NoCall]
  /\ rest = [t \in Threads |-> <<>>]
  /\ ret = [t \in Threads |-> <<>>]

-----------------------------------------------------------------------------
(* A caller streams data through the context hash *)

\* The chunk lengths the caller feeds.
ChunkLens == {0, 55, 56, 64, 128}

\* hash.init()
HashInit ==
  /\ hash' = init(hash)
  /\ phase' = "Initialized"
  /\ reused' = (phase = "Finalized")
  /\ fed' = <<>>
  /\ digest_' = <<>>
  /\ UNCHANGED <<ctx, DESC, life, call, pc, job, rest, ret>>

\* hash.update(data), data a Buffer of the next n bytes of Msg
HashUpdate ==
  \E n \in ChunkLens :
    /\ life + n <= MaxLife
    /\ hash' = update(hash, Buf(Chunk(life, n))).c
    /\ fed' = fed \o Chunk(life, n)
    /\ life' = life + n
    /\ phase' = IF phase \in {"Initialized", "Accumulating"}
                  THEN "Accumulating" ELSE "Misused"
    /\ UNCHANGED <<ctx, DESC, reused, digest_, call, pc, job, rest, ret>>

\* What a final() on hash that returned r leaves behind.
Returned(r) ==
  /\ hash' = r.c
  /\ DESC' = r.desc
  /\ digest_' = r.out
  /\ phase' = IF phase \in {"Initialized", "Accumulating"}
                THEN "Finalized" ELSE "Misused"
  /\ UNCHANGED <<ctx, reused, fed, life, call, pc, job, rest, ret>>

\* hash.final()
HashFinal ==
  /\ hash.bytes <= MaxLife
  /\ Returned(final(hash))

Next == HashInit \/ HashUpdate \/ HashFinal

Spec == Init /\ [][Next]_vars

-----------------------------------------------------------------------------
(* Callers make one-shot calls, one after the other *)

\* The lengths of the Buffers passed to digest().
DigestLens == {0, 100}

\* The values passed to digest(): Buffers, and a string of three characters.
DigestInputs == {Buf(Chunk(0, n)) : n \in DigestLens} \cup {NonBuf(Chunk(0, 3))}

\* The values passed to root(): two Buffers of 20 bytes, one of 19, one of 21,
\* and an array of 20 numbers.
RootInputs ==
  {Buf(Chunk(0, 20)), Buf(Chunk(20, 20)), Buf(Chunk(40, 19)), Buf(Chunk(60, 21)),
   NonBuf(Chunk(0, 20))}

\* What a one-shot call that ended as r leaves behind.
Called(op, args, r) ==
  /\ ctx' = r.c
  /\ DESC' = r.desc
  /\ call' = [op |-> op, args |-> args, ok |-> r.ok, out |-> r.out]
  /\ UNCHANGED <<hash, phase, reused, fed, life, digest_, pc, job, rest, ret>>

\* SHA1.digest(data)
CallDigest == \E data \in DigestInputs : Called("digest", <<data>>, digest(ctx, DESC, data))

\* SHA1.root(left, right)
CallRoot ==
  \E left \in RootInputs, right \in RootInputs :
    Called("root", <<left, right>>, root(ctx, DESC, left, right))

NextInputs == CallDigest \/ CallRoot

SpecInputs == Init /\ [][NextInputs]_vars

-----------------------------------------------------------------------------
(* Logical threads make one-shot calls whose steps interleave *)

\* The calls a thread makes: digest() of 3 bytes, digest() of 70 bytes, root()
\* of two 20-byte Buffers.
Jobs ==
  {[op |-> "digest", args |-> <<Buf(Chunk(0, 3))>>],
   [op |-> "digest", args |-> <<Buf(Chunk(3, 70))>>],
   [op |-> "root", args |-> <<Buf(Chunk(0, 20)), Buf(Chunk(20, 20))>>]}

\* Thread t enters digest() or root() with valid arguments and runs ctx.init().
ThreadInit(t) ==
  /\ pc[t] = "idle"
  /\ \E j \in Jobs : job' = [job EXCEPT ![t] = j] /\ rest' = [rest EXCEPT ![t] = j.args]
  /\ ctx' = init(ctx)
  /\ pc' = [pc EXCEPT ![t] = "running"]
  /\ UNCHANGED <<hash, DESC, phase, reused, fed, life, digest_, call, ret>>

\* Thread t runs the next .update(..) of its chain.
ThreadUpdate(t) ==
  /\ pc[t] = "running"
  /\ rest[t] # <<>>
  /\ ctx' = update(ctx, Head(rest[t])).c
  /\ rest' = [rest EXCEPT ![t] = Tail(@)]
  /\ UNCHANGED <<hash, DESC, phase, reused, fed, life, digest_, call, pc, job, ret>>

\* What the .final() of thread t that returned r leaves behind.
ThreadReturned(t, r) ==
  /\ ctx' = r.c
  /\ DESC' = r.desc
  /\ ret' = [ret EXCEPT ![t] = r.out]
  /\ pc' = [pc EXCEPT ![t] = "done"]
  /\ UNCHANGED <<hash, phase, reused, fed, life, digest_, call, job, rest>>

\* Thread t runs the .final() of its chain and returns.
ThreadFinal(t) ==
  /\ pc[t] = "running"
  /\ rest[t] = <<>>
  /\ ThreadReturned(t, final(ctx))

NextThreads == \E t \in Threads : ThreadInit(t) \/ ThreadUpdate(t) \/ ThreadFinal(t)

SpecThreads == Init /\ [][NextThreads]_vars

-----------------------------------------------------------------------------
(* The compression function as the standard states it: words are pairs         *)
(* <<high 16 bits, low 16 bits>> in 0..65535, every sum is reduced modulo 2^32 *)

RefWord(blk, k) ==
  <<blk[4 * k + 1] * 256 + blk[4 * k + 2], blk[4 * k + 3] * 256 + blk[4 * k + 4]>>

RefAdd(p, q) ==
  <<(p[1] + q[1] + ((p[2] + q[2]) \div 65536)) % 65536, (p[2] + q[2]) % 65536>>

\* Rotation to the left by n < 16 bits.
RefRotlLow(p, n) ==
  <<((p[1] * (2 ^ n)) % 65536) + (p[2] \div (2 ^ (16 - n))),
    ((p[2] * (2 ^ n)) % 65536) + (p[1] \div (2 ^ (16 - n)))>>

\* Rotation to the left by n < 32 bits.
RefRotl(p, n) == IF n >= 16 THEN RefRotlLow(<<p[2], p[1]>>, n - 16) ELSE RefRotlLow(p, n)

RefBits(T, p, q) == <<Op16(T, p[1], q[1]), Op16(T, p[2], q[2])>>

RefNot(p) == <<65535 - p[1], 65535 - p[2]>>

\* f of round i: ch, parity, maj, parity.
RefF(i, b, c, d) ==
  IF i < 20 THEN RefBits(OrT, RefBits(AndT, b, c), RefBits(AndT, RefNot(b), d))
  ELSE IF i >= 40 /\ i < 60
    THEN RefBits(OrT, RefBits(OrT, RefBits(AndT, b, c), RefBits(AndT, b, d)),
                 RefBits(AndT, c, d))
  ELSE RefBits(XorT, RefBits(XorT, b, c), d)

\* The constant of round i: 0x5a827999, 0x6ed9eba1, 0x8f1bbcdc, 0xca62c1d6.
RefK(i) ==
  IF i < 20 THEN <<23170, 31129>>
  ELSE IF i < 40 THEN <<28377, 60321>>
  ELSE IF i < 60 THEN <<36635, 48348>>
  ELSE <<51810, 49622>>

RECURSIVE RefExpand(_, _)
RefExpand(w, length) ==
  IF Len(w) >= length THEN w
  ELSE RefExpand(Append(w, RefRotl(RefBits(XorT, RefBits(XorT, RefBits(XorT,
                   w[Len(w) - 2], w[Len(w) - 7]), w[Len(w) - 13]), w[Len(w) - 15]), 1)),
                 length)

RefSchedule(blk) ==
  RefExpand(RefExpand(RefExpand(RefExpand(
    SubSeq([k \in 1..16 |-> RefWord(blk, k - 1)], 1, 16), 32), 48), 64), 80)

RefRound(i, v, w) ==
  << RefAdd(RefAdd(RefAdd(RefAdd(RefRotl(v[1], 5), RefF(i, v[2], v[3], v[4])), v[5]),
                   w[i + 1]), RefK(i)),
     v[1], RefRotl(v[2], 30), v[3], v[4] >>

RECURSIVE RefRounds(_, _, _, _)
RefRounds(i, end, v, w) ==
  IF i >= end \/ Len(v) # 5 THEN v ELSE RefRounds(i + 1, end, RefRound(i, v, w), w)

RECURSIVE RefAllRounds(_, _, _)
RefAllRounds(i, v, w) ==
  IF i >= 80 \/ Len(v) # 5 THEN v
  ELSE RefAllRounds(i + 20, RefRounds(i, i + 20, v, w), w)

RefSum(s, v) ==
  <<RefAdd(s[1], v[1]), RefAdd(s[2], v[2]), RefAdd(s[3], v[3]), RefAdd(s[4], v[4]),
    RefAdd(s[5], v[5])>>

RefFinish(s, w) == IF Len(w) = 80 THEN RefSum(s, RefAllRounds(0, s, w)) ELSE s

\* The five state words after the block blk is compressed into the words s.
RefCompress(s, blk) == RefFinish(s, RefSchedule(blk))

\* s is five words in [0, 2^32).
AreWords(s) == \A i \in 1..5 : s[i][1] \in 0..65535 /\ s[i][2] \in 0..65535

-----------------------------------------------------------------------------
(* Properties of a context that a caller streams data through *)

\* The bytes of block that are pending in the context c.
Pending(c) == SubSeq(c.block, 1, Size(c))

\* A freshly constructed context after init() and one update(X).
Single(X) == _update(init(New), X, Len(X))

\* The contexts c and r hold the same state words, byte counter and pending bytes.
SameAccumulation(c, r) == c.s = r.s /\ c.bytes = r.bytes /\ Pending(c) = Pending(r)

\* The bytes compressed by the transforms of a log, in order.
RECURSIVE Stream(_)
Stream(log) == IF log = <<>> THEN <<>> ELSE Head(log)[2] \o Stream(Tail(log))

\* st is X, one 0x80 byte, zero bytes up to a length of 56 modulo 64, and 8 more bytes.
IsPadded(st, X) ==
  /\ Len(st) % 64 = 0
  /\ Len(st) - 8 - Len(X) \in 1..64
  /\ SubSeq(st, 1, Len(X)) = X
  /\ st[Len(X) + 1] = 128
  /\ \A i \in (Len(X) + 2)..(Len(st) - 8) : st[i] = 0

\* C1: for every way the caller cut the bytes fed since init() into chunks, the
\* context holds before final() the same five state words, byte counter and
\* pending bytes as a fresh context after init() and one update() of all the
\* bytes, and final() returned the digest that context returns.
C1_StreamingEquivalence ==
  /\ phase \in {"Initialized", "Accumulating"} => SameAccumulation(hash, Single(fed))
  /\ phase = "Finalized" => digest_ = final(Single(fed)).out

\* 55 bytes and then 56 bytes were fed, the second chunk straddles the end of
\* the first block, and final() has returned.
C1_Witness ==
  /\ phase = "Finalized" /\ Len(fed) = 111 /\ Len(digest_) = 20
  /\ Len(hash.log) = 2 /\ hash.log[1][2] = SubSeq(fed, 1, 64)

\* C2: final() compresses exactly one block more when 0..55 bytes are pending
\* and exactly two when 56..63 are; what it compresses is the bytes fed, 0x80,
\* zeros up to 56 modulo 64 and 8 bytes; afterwards no byte is pending.
C2_PaddingBlocks ==
  phase = "Finalized" =>
    /\ Len(hash.log) = (Len(fed) \div 64) + (IF Len(fed) % 64 <= 55 THEN 1 ELSE 2)
    /\ Size(hash) = 0
    /\ IsPadded(Stream(hash.log), fed)

\* 120 bytes were fed, 56 of them pending, and final() compressed two blocks more.
C2_Witness == phase = "Finalized" /\ Len(fed) = 120 /\ Len(hash.log) = 3

\* The 64-bit big-endian encoding of 8 * n, for n < 2^28.
BE64OfBits(n) ==
  <<0, 0, 0, 0, ((8 * n) \div 16777216) % 256, ((8 * n) \div 65536) % 256,
    ((8 * n) \div 256) % 256, (8 * n) % 256>>

\* Byte counts beyond 2^29, as <<high part, low 16 bits>>, each with the 64-bit
\* big-endian encoding of eight times the count.
LongCounts ==
  { <<<<0, 1>>, <<0, 0, 0, 0, 0, 0, 0, 8>>>>,
    <<<<8191, 65535>>, <<0, 0, 0, 0, 255, 255, 255, 248>>>>,
    <<<<8192, 0>>, <<0, 0, 0, 1, 0, 0, 0, 0>>>>,
    <<<<8192, 1>>, <<0, 0, 0, 1, 0, 0, 0, 8>>>>,
    <<<<65535, 65535>>, <<0, 0, 0, 7, 255, 255, 255, 248>>>>,
    <<<<65536, 0>>, <<0, 0, 0, 8, 0, 0, 0, 0>>>>,
    <<<<123456789, 4660>>, <<0, 0, 58, 222, 104, 168, 145, 160>>>>,
    <<<<268435455, 65535>>, <<0, 0, 127, 255, 255, 255, 255, 248>>>> }

\* C3: the last 8 bytes final() compresses, and leaves in DESC, are the 64-bit
\* big-endian encoding of 8 times the number of bytes the caller fed since
\* init(), padding not counted; the high word is the bit count divided by 2^32.
C3_LengthTrailer ==
  /\ phase = "Finalized" =>
       /\ hash.log # <<>>
       /\ SubSeq(hash.log[Len(hash.log)][2], 57, 64) = BE64OfBits(Len(fed))
       /\ DESC = BE64OfBits(Len(fed))
  /\ \A n \in LongCounts : DescOf(n[1]) = n[2]

\* 128 bytes were fed and final() compressed a block that ends with 1024.
C3_Witness ==
  /\ phase = "Finalized" /\ Len(fed) = 128 /\ Len(hash.log) = 3
  /\ SubSeq(hash.log[3][2], 57, 64) = <<0, 0, 0, 0, 0, 0, 4, 0>>

\* C4: after a final() and an init() on the same context, the context is as
\* init() leaves a fresh one, and the next final() returns the digest a freshly
\* constructed context returns for the bytes fed in between.
C4_ReuseLaw ==
  /\ reused /\ phase = "Initialized" => hash.s = IV /\ hash.bytes = 0 /\ hash.log = <<>>
  /\ reused /\ phase = "Finalized" => digest_ = final(Single(fed)).out

\* A second run on the same context has returned: 56 bytes went through the
\* first run and 55 through the second.
C4_Witness ==
  reused /\ phase = "Finalized" /\ Len(fed) = 55 /\ life = 111 /\ Len(digest_) = 20

\* C9: between calls of init() and update() the number of pending bytes is in
\* 0..63 and is the byte counter modulo 64, the byte counter is the number of
\* bytes fed since init(), the number of blocks compressed since init() is the
\* byte counter divided by 64, and the pending bytes are the last bytes fed.
C9_Counters ==
  phase \in {"Uninitialized", "Initialized", "Accumulating"} =>
    /\ Size(hash) \in 0..63
    /\ Size(hash) = hash.bytes % 64
    /\ hash.bytes = Len(fed)
    /\ Len(hash.log) = hash.bytes \div 64
    /\ Pending(hash) = SubSeq(fed, Len(fed) - Size(hash) + 1, Len(fed))

\* 119 bytes were fed in two chunks: one block was compressed, 55 bytes pend.
C9_Witness ==
  /\ phase = "Accumulating" /\ hash.bytes = 119 /\ Size(hash) = 55
  /\ Len(hash.log) = 1

\* C10: every transform that started from five words in [0, 2^32) left five
\* words in [0, 2^32), equal to the reference compression of its block.
C10_TransformReference ==
  \A k \in 1..Len(hash.log) :
    AreWords(hash.log[k][1]) =>
      /\ AreWords(hash.log[k][3])
      /\ hash.log[k][3] = RefCompress(hash.log[k][1], hash.log[k][2])

\* Two blocks were compressed, and the second word read from the first block
\* was negative (its first byte is 0x80 or more).
C10_Witness ==
  /\ phase = "Accumulating" /\ Len(hash.log) = 2
  /\ AreWords(hash.log[2][1]) /\ AreWords(hash.log[2][3])
  /\ readU32(hash.log[1][2], 4)[1] < 0

\* C7: update() and final() on a context that was never initialized, or was
\* finalized and not initialized again, fail: the context does not change and
\* no digest is returned.
C7_LifecycleEnforced ==
  [][(phase \in {"Uninitialized", "Finalized"} /\ phase' # "Initialized")
       => (hash' = hash /\ digest_' = digest_)]_vars

-----------------------------------------------------------------------------
(* Properties of the one-shot calls *)

\* The value v is a Buffer of exactly 20 bytes.
IsHash(v) == v.isBuffer /\ Len(v.bytes) = 20

\* C5: root(left, right) throws when either argument is not exactly 20 bytes
\* long, before the module's context or DESC is touched; for two Buffers of 20
\* bytes it returns what digest() returns for left followed by right.
C5_RootChecksLengths ==
  [][call'.op = "root" =>
       /\ (Len(call'.args[1].bytes) # 20 \/ Len(call'.args[2].bytes) # 20) =>
            ~call'.ok /\ call'.out = <<>> /\ ctx' = ctx /\ DESC' = DESC
       /\ (IsHash(call'.args[1]) /\ IsHash(call'.args[2])) =>
            /\ call'.ok
            /\ call'.out =
                 digest(ctx, DESC, Buf(call'.args[1].bytes \o call'.args[2].bytes)).out
     ]_vars

\* root() was called with a second argument of 21 bytes after a call that
\* succeeded, it threw, and the module's context is as that call left it.
C5_Witness ==
  /\ call.op = "root" /\ ~call.ok /\ call.out = <<>>
  /\ IsHash(call.args[1]) /\ Len(call.args[2].bytes) = 21
  /\ ctx.bytes = 64 /\ Len(ctx.log) = 1

\* C6: a call of digest() or root() with an argument that is no Buffer throws
\* and leaves the state words, the byte counter and the pending buffer of the
\* module's context as they were.
C6_InvalidInputLeavesNoTrace ==
  [][(\E i \in 1..Len(call'.args) : ~call'.args[i].isBuffer) =>
       /\ ~call'.ok
       /\ ctx'.s = ctx.s /\ ctx'.bytes = ctx.bytes /\ ctx'.block = ctx.block
     ]_vars

\* What the call j returns when no other call is in progress.
Alone(j) ==
  IF j.op = "digest" THEN digest(New, NewDesc, j.args[1]).out
  ELSE root(New, NewDesc, j.args[1], j.args[2]).out

\* C8: a one-shot call whose steps interleave with those of another thread's
\* call returns the digest it returns when run alone.
C8_OneShotIsolation == \A t \in Threads : pc[t] = "done" => ret[t] = Alone(job[t])

=============================================================================
